---- MODULE Spec2Model ----
(***************************************************************************)
(* Model of the flocking force engine of native/sensor_processor           *)
(* (src/native/sensor_processor/src/flocking.rs).                          *)
(*                                                                         *)
(* The engine is a library of pure functions over f64.  An f64 is modelled *)
(* as a binary floating-point number with a significand of Prec bits, an   *)
(* unbounded exponent, round-to-nearest-even after every operation, and    *)
(* the IEEE special values (infinities, NaN) a division by zero produces.  *)
(* Every arithmetic step of the source is one rounded operation here, in   *)
(* the order the source performs it.                                       *)
(***************************************************************************)
EXTENDS Integers, Sequences, FiniteSets, TLC

VARIABLES
    op,        \* the core operation being called
    args,      \* its arguments (a record)
    res,       \* its return value once it has returned
    pc,        \* "call" before the operation ran, "ret" after
    ticks,     \* integration steps taken so far in a run of ticks
    snapshot,  \* previous-tick states of the agents of a parallel tick
    wpc,       \* per worker: "idle", "forced" (force computed), "done"
    force,     \* per worker: the steering force it computed
    nxt        \* per worker: the next-tick state it produced

vars == <<op, args, res, pc, ticks, snapshot, wpc, force, nxt>>

(***************************************************************************)
(* Bounds of the model.                                                    *)
(***************************************************************************)
Prec == 8        \* significand bits of the modelled floating-point format
MaxCoord == 3    \* vector components are drawn from -MaxCoord..MaxCoord
MaxScalar == 3   \* scalar inputs (limits, radii, steps) are drawn up to this

(***************************************************************************)
(* f64: values.                                                            *)
(* A finite value is m * 2^e with m = 0 (and e = 0) or                     *)
(* 2^(Prec-1) <= |m| < 2^Prec.  c is "fin", "inf" (m is the sign) or "nan".*)
(***************************************************************************)
Fin(m, e) == [c |-> "fin", m |-> m, e |-> e]
Zero == Fin(0, 0)
Inf(s) == [c |-> "inf", m |-> s, e |-> 0]
NaN == [c |-> "nan", m |-> 0, e |-> 0]

Abs(n) == IF n < 0 THEN -n ELSE n
Sgn(n) == IF n < 0 THEN -1 ELSE IF n > 0 THEN 1 ELSE 0

\* the number of bits of a natural number below 2^31
BitLen4(a) ==
    IF a < 4 THEN (IF a < 2 THEN a ELSE 2) ELSE (IF a < 8 THEN 3 ELSE 4)

BitLen8(a) == IF a < 16 THEN BitLen4(a) ELSE 4 + BitLen4(a \div 16)

BitLen16(a) == IF a < 256 THEN BitLen8(a) ELSE 8 + BitLen8(a \div 256)

BitLen(a) == IF a < 65536 THEN BitLen16(a) ELSE 16 + BitLen16(a \div 65536)

\* The float nearest to s * q * 2^e for a significand q of at most Prec + 1
\* bits: a carry out of the top bit moves to the exponent.
RoundCarry(s, q, e) ==
    IF q = 2^Prec THEN Fin(s * 2^(Prec - 1), e + 1) ELSE Fin(s * q, e)

\* q the kept bits, r the bits cut off, half the weight of the first of them:
\* round to nearest, ties to the even significand.
RoundCut(s, q, r, half, e) ==
    RoundCarry(s, IF r > half \/ (r = half /\ q % 2 = 1) THEN q + 1 ELSE q, e)

\* a > 0 of L bits
RoundNat(s, a, L, e) ==
    IF L <= Prec
    THEN Fin(s * a * 2^(Prec - L), e - (Prec - L))
    ELSE RoundCut(s, a \div 2^(L - Prec), a % 2^(L - Prec),
                  2^(L - Prec - 1), e + (L - Prec))

\* The float nearest to n * 2^e.
Round(n, e) ==
    IF n = 0 THEN Zero ELSE RoundNat(Sgn(n), Abs(n), BitLen(Abs(n)), e)

\* An integer literal or input as an f64.
F(n) == Round(n, 0)

IsFin(x) == x.c = "fin"
IsNaN(x) == x.c = "nan"
IsZero(x) == x.c = "fin" /\ x.m = 0

\* -x
fneg(x) == IF x.c = "nan" THEN NaN ELSE [x EXCEPT !.m = -x.m]

\* hi + lo for finite non-zero hi, lo with hi.e >= lo.e
AddAligned(hi, lo) ==
    IF hi.e - lo.e > Prec + 2 THEN hi
    ELSE Round(hi.m * 2^(hi.e - lo.e) + lo.m, lo.e)

\* x + y
fadd(x, y) ==
    IF x.c = "nan" \/ y.c = "nan" THEN NaN
    ELSE IF x.c = "inf" /\ y.c = "inf" THEN (IF x.m = y.m THEN x ELSE NaN)
    ELSE IF x.c = "inf" THEN x
    ELSE IF y.c = "inf" THEN y
    ELSE IF x.m = 0 THEN y
    ELSE IF y.m = 0 THEN x
    ELSE IF x.e >= y.e THEN AddAligned(x, y) ELSE AddAligned(y, x)

\* x - y
fsub(x, y) == fadd(x, fneg(y))

\* x * y
fmul(x, y) ==
    IF x.c = "nan" \/ y.c = "nan" THEN NaN
    ELSE IF x.c = "inf" \/ y.c = "inf"
         THEN (IF x.m = 0 \/ y.m = 0 THEN NaN ELSE Inf(Sgn(x.m) * Sgn(y.m)))
    ELSE Round(x.m * y.m, x.e + y.e)

\* s * (n / d) * 2^(e+1) for naturals n, d with n >= d * 2^(Prec+1): the
\* quotient's bits, and one more that says whether anything is left over
DivNat(s, n, d, e) ==
    Round(s * (2 * (n \div d) + (IF n % d = 0 THEN 0 ELSE 1)), e)

\* x / y (x / 0 is an infinity, 0 / 0 is NaN: IEEE 754, no trap)
fdiv(x, y) ==
    IF x.c = "nan" \/ y.c = "nan" THEN NaN
    ELSE IF x.c = "inf" THEN (IF y.c = "inf" THEN NaN
                              ELSE Inf(x.m * (IF y.m < 0 THEN -1 ELSE 1)))
    ELSE IF y.c = "inf" THEN Zero
    ELSE IF y.m = 0 THEN (IF x.m = 0 THEN NaN ELSE Inf(Sgn(x.m)))
    ELSE IF x.m = 0 THEN Zero
    ELSE DivNat(Sgn(x.m) * Sgn(y.m), Abs(x.m) * 2^(Prec + 2), Abs(y.m),
                x.e - y.e - (Prec + 2) - 1)

\* floor of the square root of a natural number (Newton's iteration from
\* x >= sqrt(n); y is the next iterate)
RECURSIVE IsqrtFrom(_, _)
IsqrtStep(n, x, y) == IF y >= x THEN x ELSE IsqrtFrom(n, y)

IsqrtFrom(n, x) == IsqrtStep(n, x, (x + n \div x) \div 2)

Isqrt(n) == IF n = 0 THEN 0 ELSE IsqrtFrom(n, 2^((BitLen(n) + 1) \div 2))

\* sqrt(n) * 2^(e+1) for s = Isqrt(n)
SqrtRound(n, s, e) == Round(2 * s + (IF s * s = n THEN 0 ELSE 1), e)

\* sqrt(x) for finite x > 0, with the significand shifted by k bits so that
\* the exponent is even and the root has Prec + 1 bits or more
SqrtShift(x, k) ==
    SqrtRound(x.m * 2^k, Isqrt(x.m * 2^k), ((x.e - k) \div 2) - 1)

\* x.sqrt()
fsqrt(x) ==
    IF x.c = "nan" THEN NaN
    ELSE IF x.c = "inf" THEN (IF x.m > 0 THEN x ELSE NaN)
    ELSE IF x.m < 0 THEN NaN
    ELSE IF x.m = 0 THEN Zero
    ELSE SqrtShift(x, Prec + 2 + ((x.e + Prec + 2) % 2))

\* -1, 0, 1 as x <, =, > y, for x and y not NaN
Cmp(x, y) ==
    IF x.c = "inf" \/ y.c = "inf"
    THEN Sgn((IF x.c = "inf" THEN 2 * x.m ELSE Sgn(x.m))
             - (IF y.c = "inf" THEN 2 * y.m ELSE Sgn(y.m)))
    ELSE IF x.m = 0 \/ y.m = 0 \/ Sgn(x.m) # Sgn(y.m)
    THEN Sgn(Sgn(x.m) - Sgn(y.m))
    ELSE IF x.e # y.e
    THEN (IF x.e > y.e THEN Sgn(x.m) ELSE -Sgn(x.m))
    ELSE Sgn(x.m - y.m)

\* x > y, x < y, x <= y: false when either is NaN
fgt(x, y) == x.c # "nan" /\ y.c # "nan" /\ Cmp(x, y) = 1
flt(x, y) == x.c # "nan" /\ y.c # "nan" /\ Cmp(x, y) = -1
fle(x, y) == x.c # "nan" /\ y.c # "nan" /\ Cmp(x, y) <= 0

(***************************************************************************)
(* Vector3D (flocking.rs 34-103).  A `let` of the source that is used more *)
(* than once is the parameter of a helper operator here.                   *)
(***************************************************************************)
new(x, y, z) == [x |-> x, y |-> y, z |-> z]

zero == new(Zero, Zero, Zero)

\* (x * x + y * y + z * z).sqrt()
Norm3(x, y, z) == fsqrt(fadd(fadd(fmul(x, x), fmul(y, y)), fmul(z, z)))

magnitude(v) == Norm3(v.x, v.y, v.z)

multiply(v, scalar) ==
    new(fmul(v.x, scalar), fmul(v.y, scalar), fmul(v.z, scalar))

\* normalize with mag = self.magnitude()
NormalizeBy(v, mag) ==
    IF fgt(mag, Zero)
    THEN new(fdiv(v.x, mag), fdiv(v.y, mag), fdiv(v.z, mag))
    ELSE zero

\* normalize without its guard: divides whatever the magnitude
normalize_unguarded(v) == multiply(v, fdiv(F(1), magnitude(v)))

normalize(v) == NormalizeBy(v, magnitude(v))

\* limit with mag = self.magnitude(); scale = max_magnitude / mag
LimitBy(v, max_magnitude, mag) ==
    IF fgt(mag, max_magnitude)
    THEN multiply(v, fdiv(max_magnitude, mag))
    ELSE v

\* limit with its comparison inverted (mag < max_magnitude)
limit_inverted(v, max_magnitude) ==
    IF flt(magnitude(v), max_magnitude)
    THEN multiply(v, fdiv(max_magnitude, magnitude(v)))
    ELSE v

limit(v, max_magnitude) == LimitBy(v, max_magnitude, magnitude(v))

add(a, b) == new(fadd(a.x, b.x), fadd(a.y, b.y), fadd(a.z, b.z))

subtract(a, b) == new(fsub(a.x, b.x), fsub(a.y, b.y), fsub(a.z, b.z))

\* dx, dy, dz the differences of the components
distance_to(a, b) ==
    Norm3(fsub(a.x, b.x), fsub(a.y, b.y), fsub(a.z, b.z))

\* impl From<DronePosition> for Vector3D, impl From<DroneVelocity> for Vector3D
FromPosition(pos) == new(pos.x, pos.y, pos.z)
FromVelocity(vel) == new(vel.vx, vel.vy, vel.vz)

(***************************************************************************)
(* The three steering rules and their combination (flocking.rs 105-229).   *)
(* A DroneState is [id, position |-> [x, y, z], velocity |-> [vx, vy, vz]].*)
(***************************************************************************)
\* no filter: every candidate is a neighbor
nearby_neighbors_unfiltered(position, neighbors, params) == neighbors

\* the filter with an exclusive boundary (distance < neighbor_radius)
nearby_neighbors_strict(position, neighbors, params) ==
    LET InRange(neighbor) ==
            flt(distance_to(position, FromPosition(neighbor.position)),
                params.neighbor_radius)
    IN  SelectSeq(neighbors, InRange)

\* neighbors.iter().filter(distance <= neighbor_radius).collect()
nearby_neighbors(position, neighbors, params) ==
    LET InRange(neighbor) ==
            fle(distance_to(position, FromPosition(neighbor.position)),
                params.neighbor_radius)
    IN  SelectSeq(neighbors, InRange)

\* SeparationStep with an inclusive radius (distance <= separation_radius)
SeparationStep_inclusive(position, neighbor_pos, distance, params, acc) ==
    IF fgt(distance, Zero) /\ fle(distance, params.separation_radius)
    THEN [force |-> add(acc.force,
                        multiply(normalize(subtract(position, neighbor_pos)),
                                 fdiv(F(1), distance))),
          count |-> acc.count + 1]
    ELSE acc

\* the body of calculate_separation's loop for one neighbor at `distance`;
\* acc is [force |-> separation_force, count |-> count]
SeparationStep(position, neighbor_pos, distance, params, acc) ==
    IF fgt(distance, Zero) /\ flt(distance, params.separation_radius)
    THEN [force |-> add(acc.force,
                        multiply(normalize(subtract(position, neighbor_pos)),
                                 fdiv(F(1), distance))),
          count |-> acc.count + 1]
    ELSE acc

\* the for loop of calculate_separation from neighbor i on
RECURSIVE SeparationLoop(_, _, _, _, _)
SeparationLoop(position, neighbors, params, i, acc) ==
    IF i > Len(neighbors) THEN acc
    ELSE SeparationLoop(position, neighbors, params, i + 1,
             SeparationStep(position, FromPosition(neighbors[i].position),
                 distance_to(position, FromPosition(neighbors[i].position)),
                 params, acc))

\* normalize() of a vector of positive magnitude, else zero
UnitOrZero(v) == IF fgt(magnitude(v), Zero) THEN normalize(v) ELSE zero

\* what calculate_separation returns after its loop
SeparationResult(acc) ==
    IF acc.count > 0
    THEN UnitOrZero(multiply(acc.force, fdiv(F(1), F(acc.count))))
    ELSE zero

calculate_separation(position, neighbors, params) ==
    SeparationResult(SeparationLoop(position, neighbors, params, 1,
                                    [force |-> zero, count |-> 0]))

\* sum of the neighbors' velocities from neighbor i on
RECURSIVE VelocitySum(_, _, _)
VelocitySum(neighbors, i, acc) ==
    IF i > Len(neighbors) THEN acc
    ELSE VelocitySum(neighbors, i + 1,
                     add(acc, FromVelocity(neighbors[i].velocity)))

\* calculate_alignment without its early return on an empty neighbor list
calculate_alignment_unguarded(velocity, neighbors, params) ==
    subtract(normalize(multiply(VelocitySum(neighbors, 1, zero),
                                fdiv(F(1), F(Len(neighbors))))),
             normalize(velocity))

calculate_alignment(velocity, neighbors, params) ==
    IF Len(neighbors) = 0 THEN zero
    ELSE subtract(normalize(multiply(VelocitySum(neighbors, 1, zero),
                                     fdiv(F(1), F(Len(neighbors))))),
                  normalize(velocity))

\* sum of the neighbors' positions from neighbor i on
RECURSIVE PositionSum(_, _, _)
PositionSum(neighbors, i, acc) ==
    IF i > Len(neighbors) THEN acc
    ELSE PositionSum(neighbors, i + 1,
                     add(acc, FromPosition(neighbors[i].position)))

calculate_cohesion(position, neighbors, params) ==
    IF Len(neighbors) = 0 THEN zero
    ELSE UnitOrZero(subtract(multiply(PositionSum(neighbors, 1, zero),
                                      fdiv(F(1), F(Len(neighbors)))),
                             position))

\* separation*Wsep + alignment*Walign + cohesion*Wcoh on the neighbors in
\* range, before the clamp
WeightedSum(position, velocity, nearby, params) ==
    add(add(multiply(calculate_separation(position, nearby, params),
                     params.separation_weight),
            multiply(calculate_alignment(velocity, nearby, params),
                     params.alignment_weight)),
        multiply(calculate_cohesion(position, nearby, params),
                 params.cohesion_weight))

total_force(drone, neighbors, params) ==
    WeightedSum(FromPosition(drone.position), FromVelocity(drone.velocity),
                nearby_neighbors(FromPosition(drone.position), neighbors,
                                 params),
                params)

\* each rule clamped on its own, and no clamp of the sum
PerRuleSum(position, velocity, nearby, params) ==
    add(add(limit(multiply(calculate_separation(position, nearby, params),
                           params.separation_weight), params.max_force),
            limit(multiply(calculate_alignment(velocity, nearby, params),
                           params.alignment_weight), params.max_force)),
        limit(multiply(calculate_cohesion(position, nearby, params),
                       params.cohesion_weight), params.max_force))

calculate_boids_forces_per_rule(drone, neighbors, params) ==
    PerRuleSum(FromPosition(drone.position), FromVelocity(drone.velocity),
               nearby_neighbors(FromPosition(drone.position), neighbors,
                                params),
               params)

calculate_boids_forces(drone, neighbors, params) ==
    limit(total_force(drone, neighbors, params), params.max_force)

(***************************************************************************)
(* Boundary containment, obstacle avoidance, integration (231-307).        *)
(***************************************************************************)
Lit01 == fdiv(F(1), F(10))   \* the literal 0.1
Lit02 == fdiv(F(2), F(10))   \* the literal 0.2

\* an x or y axis with lower = -bound/2.0 + boundary_margin and
\* upper = bound/2.0 - boundary_margin
AxisBand(p, lower, upper) ==
    IF flt(p, lower) THEN fadd(Zero, fmul(fsub(lower, p), Lit01))
    ELSE IF fgt(p, upper) THEN fsub(Zero, fmul(fsub(p, upper), Lit01))
    ELSE Zero

\* AxisForce with the bands at the faces themselves, the margin left out
AxisForce_no_margin(p, bound, boundary_margin) ==
    AxisBand(p, fdiv(fneg(bound), F(2)), fdiv(bound, F(2)))

\* one of the x and y axes: p the coordinate, bound the extent
AxisForce(p, bound, boundary_margin) ==
    AxisBand(p, fadd(fdiv(fneg(bound), F(2)), boundary_margin),
             fsub(fdiv(bound, F(2)), boundary_margin))

\* VerticalBand with the ceiling's coefficient 0.1 at the floor as well
VerticalBand_symmetric(p, boundary_margin, ceiling) ==
    IF flt(p, boundary_margin)
    THEN fadd(Zero, fmul(fsub(boundary_margin, p), Lit01))
    ELSE IF fgt(p, ceiling)
    THEN fsub(Zero, fmul(fsub(p, ceiling), Lit01))
    ELSE Zero

\* the z axis with ceiling = z_bound - boundary_margin
VerticalBand(p, boundary_margin, ceiling) ==
    IF flt(p, boundary_margin)
    THEN fadd(Zero, fmul(fsub(boundary_margin, p), Lit02))
    ELSE IF fgt(p, ceiling)
    THEN fsub(Zero, fmul(fsub(p, ceiling), Lit01))
    ELSE Zero

\* the z axis: ground and ceiling
VerticalForce(p, z_bound, boundary_margin) ==
    VerticalBand(p, boundary_margin, fsub(z_bound, boundary_margin))

\* world_bounds is <<x_bound, y_bound, z_bound>>
apply_boundary_forces(position, velocity, world_bounds, boundary_margin) ==
    new(AxisForce(position.x, world_bounds[1], boundary_margin),
        AxisForce(position.y, world_bounds[2], boundary_margin),
        VerticalForce(position.z, world_bounds[3], boundary_margin))

\* Strength without the factor 2.0
Strength_unscaled(distance, danger_distance) ==
    fdiv(fsub(danger_distance, distance), danger_distance)

\* strength * 2.0 for one obstacle at `distance`
Strength(distance, danger_distance) ==
    fmul(fdiv(fsub(danger_distance, distance), danger_distance), F(2))

\* the body of calculate_obstacle_avoidance's loop for one obstacle
AvoidanceStep(position, obstacle_pos, distance, danger_distance, avoidance_force) ==
    IF flt(distance, danger_distance) /\ fgt(distance, Zero)
    THEN add(avoidance_force,
             multiply(normalize(subtract(position, obstacle_pos)),
                      Strength(distance, danger_distance)))
    ELSE avoidance_force

\* the center of an obstacle <<ox, oy, oz, radius>>
ObstaclePos(o) == new(o[1], o[2], o[3])

\* the for loop from obstacle i on
RECURSIVE AvoidanceLoop(_, _, _, _, _)
AvoidanceLoop(position, obstacles, avoidance_distance, i, avoidance_force) ==
    IF i > Len(obstacles) THEN avoidance_force
    ELSE AvoidanceLoop(position, obstacles, avoidance_distance, i + 1,
             AvoidanceStep(position, ObstaclePos(obstacles[i]),
                 distance_to(position, ObstaclePos(obstacles[i])),
                 fadd(obstacles[i][4], avoidance_distance),
                 avoidance_force))

calculate_obstacle_avoidance(position, velocity, obstacles, avoidance_distance) ==
    AvoidanceLoop(position, obstacles, avoidance_distance, 1, zero)

\* integrate_motion with limited_velocity computed
Advance(position, limited_velocity, dt) ==
    [position |-> add(position, multiply(limited_velocity, dt)),
     velocity |-> limited_velocity]

\* integrate_motion advancing the position with the old velocity
integrate_motion_old_velocity(position, velocity, acceleration, dt, max_speed) ==
    [position |-> add(position, multiply(velocity, dt)),
     velocity |-> limit(add(velocity, multiply(acceleration, dt)), max_speed)]

\* integrate_motion advancing the position with the unclamped new velocity
integrate_motion_unclamped(position, velocity, acceleration, dt, max_speed) ==
    [position |-> add(position,
                      multiply(add(velocity, multiply(acceleration, dt)), dt)),
     velocity |-> limit(add(velocity, multiply(acceleration, dt)), max_speed)]

\* returns [position |-> new_position, velocity |-> limited_velocity]
integrate_motion(position, velocity, acceleration, dt, max_speed) ==
    Advance(position,
            limit(add(velocity, multiply(acceleration, dt)), max_speed),
            dt)

(***************************************************************************)
(* Calls.  A specification draws an operation and its arguments in its     *)
(* initial state; the call action applies the operation and records what   *)
(* it returned.                                                            *)
(***************************************************************************)
Coords == (-MaxCoord) .. MaxCoord
Vectors == {new(F(a), F(b), F(c)) : a \in Coords, b \in Coords, c \in Coords}

NoTick == /\ ticks = 0
          /\ snapshot = <<>>
          /\ wpc = <<>>
          /\ force = <<>>
          /\ nxt = <<>>

Return(value) ==
    /\ pc = "call"
    /\ res' = value
    /\ pc' = "ret"
    /\ UNCHANGED <<op, args, ticks, snapshot, wpc, force, nxt>>

Returned(name) == op = name /\ pc = "ret"

\* ---- Vector3D::limit ----
InitLimit ==
    /\ op = "limit"
    /\ args \in [v : Vectors, max_magnitude : {F(m) : m \in (-2) .. MaxScalar}]
    /\ res = zero
    /\ pc = "call"
    /\ NoTick

CallLimit ==
    /\ op = "limit"
    /\ Return(limit(args.v, args.max_magnitude))

SpecLimit == InitLimit /\ [][CallLimit]_vars

\* 1 + 2^(4-Prec): the relative rounding error a clamp may leave
\* (16 units of roundoff 2^-Prec; 1 + 2^-49 for an f64)
Slack == fadd(F(1), Round(1, 4 - Prec))

\* x <= m up to rounding
WithinRounding(x, m) == fle(x, fmul(m, Slack))

\* C4 (as claimed): for all v and m, negative m included,
\* magnitude(limit(v, m)) <= m, and limit(v, m) = v whenever magnitude(v) <= m.
C4_LimitExact ==
    Returned("limit") =>
        /\ fle(magnitude(res), args.max_magnitude)
        /\ fle(magnitude(args.v), args.max_magnitude) => res = args.v

\* C4 (amended): for all v and all m >= 0, magnitude(limit(v, m)) <= m up to
\* the rounding of the rescaling (a relative error of at most 2^(4-Prec));
\* for every m, limit(v, m) is v, component for component, whenever
\* magnitude(v) <= m.
C4_LimitWithinRounding ==
    Returned("limit") =>
        /\ fle(Zero, args.max_magnitude) =>
               WithinRounding(magnitude(res), args.max_magnitude)
        /\ fle(magnitude(args.v), args.max_magnitude) => res = args.v

\* C4 witness: a vector longer than a positive m was clamped, and the result
\* is not the input.
C4_Witness ==
    /\ Returned("limit")
    /\ fgt(args.max_magnitude, Zero)
    /\ fgt(magnitude(args.v), args.max_magnitude)
    /\ res # args.v
    /\ fgt(magnitude(res), Zero)

\* ---- calculate_boids_forces ----
MaxNeighbors == 2   \* candidate lists hold up to this many agents
MaxForce == 2       \* max_force is drawn from 0..MaxForce

Vec(a, b, c) == new(F(a), F(b), F(c))

DroneState(id, p, v) ==
    [id |-> id,
     position |-> [x |-> p.x, y |-> p.y, z |-> p.z],
     velocity |-> [vx |-> v.x, vy |-> v.y, vz |-> v.z]]

\* the agents whose force is computed
Drones ==
    { DroneState("self", Vec(0, 0, 0), Vec(0, 0, 0)),
      DroneState("self", Vec(0, 0, 0), Vec(1, 0, 0)),
      DroneState("self", Vec(1, 0, 0), Vec(0, 2, 0)) }

\* the other agents a candidate list is made of: one at the origin, and
\* others at distances 1, 2, 3 and in between from the agents above
Candidates ==
    { DroneState("a", Vec(0, 0, 0), Vec(1, 0, 0)),
      DroneState("b", Vec(1, 0, 0), Vec(0, 0, 0)),
      DroneState("c", Vec(2, 0, 0), Vec(0, 1, 0)),
      DroneState("d", Vec(3, 0, 0), Vec(-1, 0, 0)),
      DroneState("e", Vec(2, 2, 1), Vec(1, -1, 2)) }

CandidateLists ==
    UNION {[1 .. n -> Candidates] : n \in 0 .. MaxNeighbors}

\* FlockingParams::default()
DefaultParams ==
    [neighbor_radius |-> F(100), separation_radius |-> F(50),
     max_speed |-> F(50), max_force |-> F(10),
     separation_weight |-> F(2), alignment_weight |-> F(1),
     cohesion_weight |-> F(1), obstacle_avoidance_weight |-> F(3)]

\* <<neighbor_radius, separation_radius>>
Radii == {<<2, 1>>, <<2, 3>>, <<3, 3>>}

\* <<separation_weight, alignment_weight, cohesion_weight>>
Weights == {<<2, 1, 1>>, <<1, 0, 0>>, <<0, 1, 0>>, <<0, 0, 1>>}

ParamValues ==
    {DefaultParams} \cup
    { [DefaultParams EXCEPT
          !.neighbor_radius = F(r[1]), !.separation_radius = F(r[2]),
          !.max_force = F(mf), !.separation_weight = F(w[1]),
          !.alignment_weight = F(w[2]), !.cohesion_weight = F(w[3])] :
      r \in Radii, mf \in 0 .. MaxForce, w \in Weights }

InitBoids ==
    /\ op = "calculate_boids_forces"
    /\ args \in [drone : Drones, neighbors : CandidateLists,
                 params : ParamValues]
    /\ res = zero
    /\ pc = "call"
    /\ NoTick

CallBoids ==
    /\ op = "calculate_boids_forces"
    /\ Return(calculate_boids_forces(args.drone, args.neighbors, args.params))

SpecBoids == InitBoids /\ [][CallBoids]_vars

\* what Vector3D::limit is specified to return for v and m, written out
Clamped(v, m) ==
    IF fgt(magnitude(v), m)
    THEN multiply(v, fdiv(m, magnitude(v)))
    ELSE v

\* C1 (as claimed): for every agent, candidate list and parameters the
\* returned force is no longer than max_force, and it is the weighted sum
\* separation*Wsep + alignment*Walign + cohesion*Wcoh clamped once, last.
C1_ForceExact ==
    Returned("calculate_boids_forces") =>
        /\ fle(magnitude(res), args.params.max_force)
        /\ res = Clamped(total_force(args.drone, args.neighbors, args.params),
                         args.params.max_force)

\* C1 (amended): the returned force is no longer than max_force up to the
\* rounding of the clamp's rescaling (a relative excess of at most
\* 2^(4-Prec)), and it is the weighted sum clamped once, as the last step.
C1_ForceWithinRounding ==
    Returned("calculate_boids_forces") =>
        /\ WithinRounding(magnitude(res), args.params.max_force)
        /\ res = Clamped(total_force(args.drone, args.neighbors, args.params),
                         args.params.max_force)

\* C1 witness: the weighted sum was longer than a positive max_force, each
\* rule contributed to it, and the clamp shortened it.
C1_Witness ==
    /\ Returned("calculate_boids_forces")
    /\ Len(args.neighbors) = MaxNeighbors
    /\ fgt(args.params.max_force, Zero)
    /\ fgt(args.params.separation_weight, Zero)
    /\ fgt(args.params.alignment_weight, Zero)
    /\ fgt(args.params.cohesion_weight, Zero)
    /\ fgt(magnitude(total_force(args.drone, args.neighbors, args.params)),
           args.params.max_force)
    /\ res # total_force(args.drone, args.neighbors, args.params)
    /\ fgt(magnitude(res), Zero)

\* the indices of the candidates within neighbor_radius of the agent
InRadius(a) ==
    {i \in 1 .. Len(a.neighbors) :
        fle(distance_to(FromPosition(a.drone.position),
                        FromPosition(a.neighbors[i].position)),
            a.params.neighbor_radius)}

\* the k-th smallest element of a set of indices
Kth(S, k) == CHOOSE i \in S : Cardinality({j \in S : j < i}) = k - 1

\* the candidates with an index in S, in their order in the list
Pick(list, S) == [k \in 1 .. Cardinality(S) |-> list[Kth(S, k)]]

\* the force the three rules give on a neighbor set
ForceOn(a, near) ==
    LET position == FromPosition(a.drone.position)
        velocity == FromVelocity(a.drone.velocity)
    IN  limit(add(add(multiply(calculate_separation(position, near, a.params),
                               a.params.separation_weight),
                      multiply(calculate_alignment(velocity, near, a.params),
                               a.params.alignment_weight)),
                  multiply(calculate_cohesion(position, near, a.params),
                           a.params.cohesion_weight)),
              a.params.max_force)

\* C7: the neighbor set the rules are computed on is exactly the candidates
\* at distance <= neighbor_radius (a candidate at exactly neighbor_radius
\* included, a farther one excluded), in list order, duplicates kept.
C7_NeighborSet ==
    Returned("calculate_boids_forces") =>
        LET near == nearby_neighbors(FromPosition(args.drone.position),
                                     args.neighbors, args.params)
        IN  /\ near = Pick(args.neighbors, InRadius(args))
            /\ res = ForceOn(args, Pick(args.neighbors, InRadius(args)))

\* C7 witness: of two candidates, the first is farther than neighbor_radius
\* and the second is at exactly neighbor_radius, and the force is not the
\* one the whole list would give.
C7_Witness ==
    /\ Returned("calculate_boids_forces")
    /\ Len(args.neighbors) = 2
    /\ InRadius(args) = {2}
    /\ distance_to(FromPosition(args.drone.position),
                   FromPosition(args.neighbors[2].position))
         = args.params.neighbor_radius
    /\ res # ForceOn(args, args.neighbors)
    /\ res # zero

\* C10: with an empty candidate list, or no candidate within
\* neighbor_radius, alignment and cohesion are the zero vector and the
\* returned force is the zero vector.
C10_NoNeighbors ==
    (Returned("calculate_boids_forces") /\ InRadius(args) = {}) =>
        LET near == nearby_neighbors(FromPosition(args.drone.position),
                                     args.neighbors, args.params)
        IN  /\ calculate_alignment(FromVelocity(args.drone.velocity), near,
                                   args.params) = zero
            /\ calculate_cohesion(FromPosition(args.drone.position), near,
                                  args.params) = zero
            /\ res = zero

\* C10 witness: a moving agent, a non-empty candidate list with nobody
\* within neighbor_radius, non-zero alignment weight, and a zero force.
C10_Witness ==
    /\ Returned("calculate_boids_forces")
    /\ Len(args.neighbors) > 0
    /\ InRadius(args) = {}
    /\ FromVelocity(args.drone.velocity) # zero
    /\ fgt(args.params.alignment_weight, Zero)
    /\ fgt(args.params.max_force, Zero)
    /\ res = zero

\* ---- integrate_motion, tick after tick ----
MaxTicks == 1   \* a run feeds its state back into integrate_motion this often

Half == Round(1, -1)

Accelerations == {Vec(10, 0, 0), Vec(1, -2, 2)}
Steps == {F(-1), F(0), Half, F(1)}
Speeds == {F(-1), F(0), F(2), F(5)}

InitIntegrate ==
    /\ op = "integrate_motion"
    /\ args \in [position : {zero, Vec(100, -100, 100)},
                 velocity : {zero, Vec(3, 4, 0)},
                 acceleration : Accelerations, dt : Steps, max_speed : Speeds]
    /\ res = [position |-> zero, velocity |-> zero]
    /\ pc = "call"
    /\ NoTick

CallIntegrate ==
    /\ op = "integrate_motion"
    /\ pc = "call"
    /\ res' = integrate_motion(args.position, args.velocity,
                               args.acceleration, args.dt, args.max_speed)
    /\ pc' = "ret"
    /\ UNCHANGED <<op, args, ticks, snapshot, wpc, force, nxt>>

\* the caller carries the returned state into the next tick
NextTick ==
    /\ op = "integrate_motion"
    /\ pc = "ret"
    /\ ticks < MaxTicks
    /\ \E a \in Accelerations, dt \in Steps, max_speed \in Speeds :
           args' = [position |-> res.position, velocity |-> res.velocity,
                    acceleration |-> a, dt |-> dt, max_speed |-> max_speed]
    /\ ticks' = ticks + 1
    /\ pc' = "call"
    /\ UNCHANGED <<op, res, snapshot, wpc, force, nxt>>

SpecIntegrate == InitIntegrate /\ [][CallIntegrate \/ NextTick]_vars

IsFinite(v) == IsFin(v.x) /\ IsFin(v.y) /\ IsFin(v.z)

\* the spacing of the floats at x
Ulp(x) == IF x.c # "fin" \/ x.m = 0 THEN Zero ELSE Round(1, x.e)

fmax(x, y) == IF fgt(y, x) THEN y ELSE x

\* two units in the last place of the largest coordinate of p
PositionRounding(p) ==
    fmul(F(2), fmax(fmax(Ulp(p.x), Ulp(p.y)), Ulp(p.z)))

\* C2 (as claimed): after every tick of a run, for arbitrary acceleration,
\* dt and max_speed, |velocity'| <= max_speed and
\* |position' - position| <= max_speed * dt.
C2_TickExact ==
    Returned("integrate_motion") =>
        /\ fle(magnitude(res.velocity), args.max_speed)
        /\ fle(magnitude(subtract(res.position, args.position)),
               fmul(args.max_speed, args.dt))

\* C2 (amended): after every tick of a run with dt >= 0, max_speed >= 0 and
\* a finite incoming state, |velocity'| <= max_speed and
\* |position' - position| <= max_speed * dt hold up to rounding: a relative
\* excess of at most 2^(4-Prec), plus, for the displacement, two units in the
\* last place of the largest coordinate of position'.
C2_TickWithinRounding ==
    (/\ Returned("integrate_motion")
     /\ fle(Zero, args.dt)
     /\ fle(Zero, args.max_speed)
     /\ IsFinite(args.position)
     /\ IsFinite(args.velocity)) =>
        /\ WithinRounding(magnitude(res.velocity), args.max_speed)
        /\ fle(magnitude(subtract(res.position, args.position)),
               fadd(fmul(fmul(args.max_speed, args.dt), Slack),
                    PositionRounding(res.position)))

\* C2 witness: a second tick, fed the state the first returned, with a
\* positive step, whose new velocity was clamped to a positive max_speed
\* and moved the agent.
C2_Witness ==
    /\ Returned("integrate_motion")
    /\ ticks >= 1
    /\ fgt(args.dt, Zero)
    /\ fgt(args.max_speed, Zero)
    /\ args.position # zero
    /\ IsFinite(args.position)
    /\ IsFinite(args.velocity)
    /\ fgt(magnitude(add(args.velocity, multiply(args.acceleration, args.dt))),
           args.max_speed)
    /\ res.position # args.position

\* C3: velocity' = limit(velocity + acceleration*dt, max_speed) and
\* position' = position + velocity'*dt (the clamped new velocity); from rest
\* at the origin with acceleration (10,0,0), dt = 1, max_speed = 5 the result
\* is velocity' = (5,0,0), position' = (5,0,0).
C3_SemiImplicit ==
    Returned("integrate_motion") =>
        /\ res.velocity =
             Clamped(add(args.velocity, multiply(args.acceleration, args.dt)),
                     args.max_speed)
        /\ res.position = add(args.position, multiply(res.velocity, args.dt))
        /\ (args = [position |-> zero, velocity |-> zero,
                    acceleration |-> Vec(10, 0, 0), dt |-> F(1),
                    max_speed |-> F(5)])
             => res = [position |-> Vec(5, 0, 0), velocity |-> Vec(5, 0, 0)]

\* C3 witness: the example call has returned.
C3_Witness ==
    /\ Returned("integrate_motion")
    /\ args = [position |-> zero, velocity |-> zero,
               acceleration |-> Vec(10, 0, 0), dt |-> F(1),
               max_speed |-> F(5)]
    /\ res.velocity # add(args.velocity, multiply(args.acceleration, args.dt))

\* ---- apply_boundary_forces ----
WorldBounds == {<<F(0), F(0), F(0)>>, <<F(4), F(4), F(4)>>, <<F(6), F(4), F(2)>>}
Margins == {F(m) : m \in (-1) .. MaxScalar}

InitBoundary ==
    /\ op = "apply_boundary_forces"
    /\ args \in [position : Vectors, velocity : {zero},
                 world_bounds : WorldBounds, boundary_margin : Margins]
    /\ res = zero
    /\ pc = "call"
    /\ NoTick

CallBoundary ==
    /\ op = "apply_boundary_forces"
    /\ Return(apply_boundary_forces(args.position, args.velocity,
                                    args.world_bounds, args.boundary_margin))

SpecBoundary == InitBoundary /\ [][CallBoundary]_vars

\* the margin thresholds of an x or y axis of extent bound, and of the z axis
LowerThreshold(bound) == fadd(fdiv(fneg(bound), F(2)), args.boundary_margin)
UpperThreshold(bound) == fsub(fdiv(bound, F(2)), args.boundary_margin)
Ceiling == fsub(args.world_bounds[3], args.boundary_margin)

\* coordinate p with force component f, on an axis whose bands are
\* p < lower and p > upper
OnThreshold(p, lower, upper) == p = lower \/ p = upper
InBand(p, lower, upper) == flt(p, lower) \/ fgt(p, upper)
ZeroOnThreshold(p, f, lower, upper) == OnThreshold(p, lower, upper) => f = Zero
NonzeroInBand(p, f, lower, upper) == InBand(p, lower, upper) => f # Zero
ZeroOnFreeThreshold(p, f, lower, upper) ==
    (OnThreshold(p, lower, upper) /\ ~InBand(p, lower, upper)) => f = Zero

\* the two margins fit into the extent: the bands do not overlap
MarginsFit(bound) == fle(fmul(F(2), args.boundary_margin), bound)

\* C5 (as claimed): for every world_bounds and boundary_margin, the force
\* component of an axis is zero when the coordinate is on a margin threshold
\* of that axis and nonzero when it is strictly inside a margin band.
C5_ZeroOnThreshold ==
    Returned("apply_boundary_forces") =>
        /\ ZeroOnThreshold(args.position.x, res.x,
               LowerThreshold(args.world_bounds[1]),
               UpperThreshold(args.world_bounds[1]))
        /\ ZeroOnThreshold(args.position.y, res.y,
               LowerThreshold(args.world_bounds[2]),
               UpperThreshold(args.world_bounds[2]))
        /\ ZeroOnThreshold(args.position.z, res.z,
               args.boundary_margin, Ceiling)
        /\ NonzeroInBand(args.position.x, res.x,
               LowerThreshold(args.world_bounds[1]),
               UpperThreshold(args.world_bounds[1]))
        /\ NonzeroInBand(args.position.y, res.y,
               LowerThreshold(args.world_bounds[2]),
               UpperThreshold(args.world_bounds[2]))
        /\ NonzeroInBand(args.position.z, res.z,
               args.boundary_margin, Ceiling)

\* C5 (amended): the force component of an axis is nonzero when the
\* coordinate is strictly inside a margin band, and zero when it is on a
\* margin threshold and not strictly inside the opposite band; the latter
\* is every threshold when twice the margin is at most the axis' extent.
C5_ZeroOnFreeThreshold ==
    Returned("apply_boundary_forces") =>
        /\ ZeroOnFreeThreshold(args.position.x, res.x,
               LowerThreshold(args.world_bounds[1]),
               UpperThreshold(args.world_bounds[1]))
        /\ ZeroOnFreeThreshold(args.position.y, res.y,
               LowerThreshold(args.world_bounds[2]),
               UpperThreshold(args.world_bounds[2]))
        /\ ZeroOnFreeThreshold(args.position.z, res.z,
               args.boundary_margin, Ceiling)
        /\ MarginsFit(args.world_bounds[1]) =>
               ZeroOnThreshold(args.position.x, res.x,
                   LowerThreshold(args.world_bounds[1]),
                   UpperThreshold(args.world_bounds[1]))
        /\ MarginsFit(args.world_bounds[2]) =>
               ZeroOnThreshold(args.position.y, res.y,
                   LowerThreshold(args.world_bounds[2]),
                   UpperThreshold(args.world_bounds[2]))
        /\ MarginsFit(args.world_bounds[3]) =>
               ZeroOnThreshold(args.position.z, res.z,
                   args.boundary_margin, Ceiling)
        /\ NonzeroInBand(args.position.x, res.x,
               LowerThreshold(args.world_bounds[1]),
               UpperThreshold(args.world_bounds[1]))
        /\ NonzeroInBand(args.position.y, res.y,
               LowerThreshold(args.world_bounds[2]),
               UpperThreshold(args.world_bounds[2]))
        /\ NonzeroInBand(args.position.z, res.z,
               args.boundary_margin, Ceiling)

\* C5 witness: margins that fit, x on its lower threshold with no force,
\* y strictly inside its upper band and z strictly below the floor margin,
\* both with a force.
C5_Witness ==
    /\ Returned("apply_boundary_forces")
    /\ fgt(args.boundary_margin, Zero)
    /\ MarginsFit(args.world_bounds[1])
    /\ MarginsFit(args.world_bounds[2])
    /\ MarginsFit(args.world_bounds[3])
    /\ args.position.x = LowerThreshold(args.world_bounds[1])
    /\ res.x = Zero
    /\ fgt(args.position.y, UpperThreshold(args.world_bounds[2]))
    /\ flt(res.y, Zero)
    /\ flt(args.position.z, args.boundary_margin)
    /\ fgt(res.z, Zero)

\* ---- calculate_obstacle_avoidance ----
MaxObstacles == 2   \* obstacle lists hold up to this many obstacles

AgentPositions == {Vec(a, b, 0) : a \in Coords, b \in 0 .. MaxScalar}
Obstacles ==
    {<<F(ox), F(0), F(0), F(radius)>> : ox \in {0, 2}, radius \in 0 .. 2}
ObstacleLists == UNION {[1 .. n -> Obstacles] : n \in 0 .. MaxObstacles}
AvoidanceDistances == {F(a) : a \in 0 .. MaxScalar}

InitAvoidance ==
    /\ op = "calculate_obstacle_avoidance"
    /\ args \in [position : AgentPositions, velocity : {zero},
                 obstacles : ObstacleLists,
                 avoidance_distance : AvoidanceDistances]
    /\ res = zero
    /\ pc = "call"
    /\ NoTick

CallAvoidance ==
    /\ op = "calculate_obstacle_avoidance"
    /\ Return(calculate_obstacle_avoidance(args.position, args.velocity,
                  args.obstacles, args.avoidance_distance))

SpecAvoidance == InitAvoidance /\ [][CallAvoidance]_vars

\* a call with a single obstacle: its center, radius, danger distance, the
\* agent's distance d from the center, and the ramp 2*(danger - d)/danger
SingleObstacle ==
    Returned("calculate_obstacle_avoidance") /\ Len(args.obstacles) = 1
Center == ObstaclePos(args.obstacles[1])
Radius == args.obstacles[1][4]
Danger == fadd(Radius, args.avoidance_distance)
Dist == distance_to(args.position, Center)
Ramp == fmul(F(2), fdiv(fsub(Danger, Dist), Danger))
InDanger == fgt(Dist, Zero) /\ flt(Dist, Danger)
Ramped ==
    /\ InDanger =>
           res = multiply(normalize(subtract(args.position, Center)), Ramp)
    /\ Dist = Danger => res = zero

\* C6 (as claimed): for a single obstacle and 0 < d < danger_distance the
\* result is the unit vector from the center toward the agent scaled by
\* 2*(danger_distance - d)/danger_distance, which is 0 at d = danger_distance
\* and 2 at the obstacle's surface d = radius.
C6_RampToSurface ==
    SingleObstacle =>
        /\ Ramped
        /\ (InDanger /\ Dist = Radius) => Ramp = F(2)

\* C6 (amended): for a single obstacle and 0 < d < danger_distance the
\* result is the unit vector from the center toward the agent scaled by
\* 2*(danger_distance - d)/danger_distance, which is positive and at most 2,
\* is 0 at d = danger_distance, and at the obstacle's surface d = radius is
\* 2*avoidance_distance/danger_distance, below 2.
C6_RampToCenter ==
    SingleObstacle =>
        /\ Ramped
        /\ InDanger => (fgt(Ramp, Zero) /\ fle(Ramp, F(2)))
        /\ (InDanger /\ Dist = Radius) =>
               /\ Ramp = fmul(F(2), fdiv(args.avoidance_distance, Danger))
               /\ flt(Ramp, F(2))

\* C6 witness: an agent on the surface of a single obstacle, inside the
\* danger distance, pushed away.
C6_Witness ==
    /\ SingleObstacle
    /\ InDanger
    /\ Dist = Radius
    /\ res # zero
    /\ res = multiply(normalize(subtract(args.position, Center)), Ramp)

\* ---- one tick, one worker per agent ----
MaxAgents == 2   \* agents, and workers, of a tick

Agents == 1 .. MaxAgents

Snapshots ==
    {s \in [Agents -> Candidates] :
        \A i \in Agents, j \in Agents : i # j => s[i].id # s[j].id}

TickParams ==
    {DefaultParams, [DefaultParams EXCEPT !.max_speed = F(2), !.max_force = F(1)]}

\* the candidate list of agent i: every other agent of the snapshot
Others(s, i) == [k \in 1 .. (Len(s) - 1) |-> s[IF k < i THEN k ELSE k + 1]]

\* integrate_motion writing its result over agent i of the snapshot
Borrowed_in_place(s, i, next_state) ==
    [s EXCEPT ![i] = DroneState(s[i].id, next_state.position,
                                next_state.velocity)]

\* the snapshot after a call for agent i returned next_state: the call
\* borrowed its arguments (&) and returned new values
Borrowed(s, i, next_state) == s

InitTick ==
    /\ op = "tick"
    /\ args \in [snapshot : Snapshots, params : TickParams, dt : {Half, F(1)}]
    /\ res = zero
    /\ pc = "tick"
    /\ ticks = 0
    /\ snapshot = args.snapshot
    /\ wpc = [i \in Agents |-> "idle"]
    /\ force = [i \in Agents |-> zero]
    /\ nxt = [i \in Agents |-> [position |-> zero, velocity |-> zero]]

\* worker i computes the steering force of its agent from the snapshot
ComputeForce(i) ==
    /\ op = "tick"
    /\ wpc[i] = "idle"
    /\ force' = [force EXCEPT
                   ![i] = calculate_boids_forces(snapshot[i],
                              Others(snapshot, i), args.params)]
    /\ wpc' = [wpc EXCEPT ![i] = "forced"]
    /\ UNCHANGED <<op, args, res, pc, ticks, snapshot, nxt>>

\* the next state of agent i of snapshot s under force f
NextState(s, i, f) ==
    integrate_motion(FromPosition(s[i].position), FromVelocity(s[i].velocity),
                     f, args.dt, args.params.max_speed)

\* worker i integrates its agent's force into the agent's next state
Integrate(i) ==
    /\ op = "tick"
    /\ wpc[i] = "forced"
    /\ nxt' = [nxt EXCEPT ![i] = NextState(snapshot, i, force[i])]
    /\ snapshot' = Borrowed(snapshot, i, NextState(snapshot, i, force[i]))
    /\ wpc' = [wpc EXCEPT ![i] = "done"]
    /\ UNCHANGED <<op, args, res, pc, ticks, force>>

SpecWorkers ==
    InitTick /\ [][\E i \in Agents : ComputeForce(i) \/ Integrate(i)]_vars

\* what the tick yields for agent i, as a function of the tick's snapshot
Expected(i) ==
    NextState(args.snapshot, i,
              calculate_boids_forces(args.snapshot[i],
                                     Others(args.snapshot, i), args.params))

\* C8: whatever the order and interleaving of the workers, every agent's
\* next state is the one determined by the previous-tick snapshot alone, and
\* the snapshot and the parameters are never modified.
C8_OrderIndependent ==
    op = "tick" =>
        /\ snapshot = args.snapshot
        /\ \A i \in Agents : wpc[i] = "done" => nxt[i] = Expected(i)

\* C8 witness: the last worker finished its agent, which moved under a
\* nonzero force, while the first has its force but has not integrated.
C8_Witness ==
    /\ op = "tick"
    /\ wpc[1] = "forced"
    /\ wpc[MaxAgents] = "done"
    /\ force[1] # zero
    /\ force[MaxAgents] # zero
    /\ nxt[MaxAgents].position # FromPosition(snapshot[MaxAgents].position)
    /\ nxt[MaxAgents].velocity # FromVelocity(snapshot[MaxAgents].velocity)

\* ---- the operations on degenerate inputs ----
RuleParams ==
    {DefaultParams} \cup
    { [DefaultParams EXCEPT
          !.neighbor_radius = F(r[1]), !.separation_radius = F(r[2])] :
      r \in Radii }

InitNormalize ==
    /\ op = "normalize"
    /\ args \in [v : Vectors]
    /\ res = zero
    /\ pc = "call"
    /\ NoTick

CallNormalize == op = "normalize" /\ Return(normalize(args.v))

\* the three rules as calculate_boids_forces calls them (lines 123-125)
InitRule ==
    /\ op \in {"calculate_separation", "calculate_alignment",
               "calculate_cohesion"}
    /\ args \in [drone : Drones, neighbors : CandidateLists,
                 params : RuleParams]
    /\ res = zero
    /\ pc = "call"
    /\ NoTick

\* nearby_neighbors of the call in args
Nearby ==
    nearby_neighbors(FromPosition(args.drone.position), args.neighbors,
                     args.params)

CallSeparation ==
    /\ op = "calculate_separation"
    /\ Return(calculate_separation(FromPosition(args.drone.position), Nearby,
                                   args.params))

CallAlignment ==
    /\ op = "calculate_alignment"
    /\ Return(calculate_alignment(FromVelocity(args.drone.velocity), Nearby,
                                  args.params))

CallCohesion ==
    /\ op = "calculate_cohesion"
    /\ Return(calculate_cohesion(FromPosition(args.drone.position), Nearby,
                                 args.params))

Init == InitNormalize \/ InitRule \/ InitBoundary \/ InitAvoidance

Next ==
    \/ CallNormalize
    \/ CallSeparation
    \/ CallAlignment
    \/ CallCohesion
    \/ CallBoundary
    \/ CallAvoidance

Spec == Init /\ [][Next]_vars

\* the neighbors, and the obstacles, that are not exactly at position
NeighborsNotAt(position, neighbors) ==
    SelectSeq(neighbors, LAMBDA n : FromPosition(n.position) # position)
ObstaclesNotAt(position, obstacles) ==
    SelectSeq(obstacles, LAMBDA o : ObstaclePos(o) # position)

\* the average velocity of the neighbors
AverageVelocity(neighbors) ==
    multiply(VelocitySum(neighbors, 1, zero), fdiv(F(1), F(Len(neighbors))))

\* C9: no degenerate input makes an operation divide by zero (every result
\* is finite), and: normalize(zero) = zero; an obstacle centered at the
\* position contributes nothing to avoidance; a neighbor at the agent's
\* position contributes nothing to separation; an agent at rest gets the
\* normalized average neighbor velocity as alignment; zero-extent world
\* bounds give a finite boundary force (with no margin, -0.1 * coordinate).
C9_Degenerate ==
    pc = "ret" =>
        /\ IsFinite(res)
        /\ (op = "normalize" /\ args.v = zero) => res = zero
        /\ op = "calculate_obstacle_avoidance" =>
               res = calculate_obstacle_avoidance(args.position, args.velocity,
                         ObstaclesNotAt(args.position, args.obstacles),
                         args.avoidance_distance)
        /\ op = "calculate_separation" =>
               res = calculate_separation(FromPosition(args.drone.position),
                         NeighborsNotAt(FromPosition(args.drone.position),
                                        Nearby),
                         args.params)
        /\ (/\ op = "calculate_alignment"
            /\ FromVelocity(args.drone.velocity) = zero
            /\ Len(Nearby) > 0) =>
               res = normalize(AverageVelocity(Nearby))
        /\ (/\ op = "apply_boundary_forces"
            /\ args.world_bounds = <<Zero, Zero, Zero>>
            /\ args.boundary_margin = Zero) =>
               /\ res.x = fneg(fmul(args.position.x, Lit01))
               /\ res.y = fneg(fmul(args.position.y, Lit01))

\* C9 witness: alignment of an agent at rest, which normalizes its zero
\* velocity, with neighbors whose average velocity is not zero.
C9_Witness ==
    /\ Returned("calculate_alignment")
    /\ FromVelocity(args.drone.velocity) = zero
    /\ Len(Nearby) > 0
    /\ res # zero

\* ---- calculate_separation on a list of neighbors ----
\* the candidates and the neighbor of test_separation_force
SeparationNeighbors == Candidates \cup {DroneState("test", Vec(10, 0, 0), zero)}
SeparationLists ==
    UNION {[1 .. n -> SeparationNeighbors] : n \in 0 .. MaxNeighbors}

InitSeparation ==
    /\ op = "test_separation_force"
    /\ args \in [drone : Drones, neighbors : SeparationLists,
                 params : RuleParams]
    /\ res = zero
    /\ pc = "call"
    /\ NoTick

CallSeparationOf ==
    /\ op = "test_separation_force"
    /\ Return(calculate_separation(FromPosition(args.drone.position),
                                   args.neighbors, args.params))

SpecSeparation == InitSeparation /\ [][CallSeparationOf]_vars

\* the neighbors of the call at a distance d with 0 < d < separation_radius
Qualifies(n) ==
    /\ fgt(distance_to(FromPosition(args.drone.position),
                       FromPosition(n.position)), Zero)
    /\ flt(distance_to(FromPosition(args.drone.position),
                       FromPosition(n.position)), args.params.separation_radius)
Qualifying == SelectSeq(args.neighbors, Qualifies)

\* the unit vector from neighbor n toward the agent
AwayFrom(n) ==
    normalize(subtract(FromPosition(args.drone.position),
                       FromPosition(n.position)))

fabs(x) == IF flt(x, Zero) THEN fneg(x) ELSE x

\* a and b differ by at most 2^(3-Prec) in every component
CloseTo(a, b) ==
    /\ fle(fabs(fsub(a.x, b.x)), Round(1, 3 - Prec))
    /\ fle(fabs(fsub(a.y, b.y)), Round(1, 3 - Prec))
    /\ fle(fabs(fsub(a.z, b.z)), Round(1, 3 - Prec))

TestCall ==
    /\ FromPosition(args.drone.position) = zero
    /\ args.neighbors = <<DroneState("test", Vec(10, 0, 0), zero)>>
    /\ args.params = DefaultParams

\* C11: calculate_separation is decided by the neighbors at a distance d
\* with 0 < d < separation_radius alone (one at exactly separation_radius
\* does not count); it returns zero when none qualifies, and with exactly
\* one qualifying neighbor the unit vector from that neighbor toward the
\* agent, up to rounding; the call of test_separation_force returns (-1,0,0).
C11_Separation ==
    Returned("test_separation_force") =>
        /\ res = calculate_separation(FromPosition(args.drone.position),
                                      Qualifying, args.params)
        /\ Len(Qualifying) = 0 => res = zero
        /\ Len(Qualifying) = 1 =>
               /\ CloseTo(res, AwayFrom(Qualifying[1]))
               /\ fgt(magnitude(res), Zero)
        /\ TestCall =>
               (flt(res.x, Zero) /\ fgt(magnitude(res), Zero)
                /\ res = Vec(-1, 0, 0))

\* C11 witness: one neighbor qualifies and pushes the agent away, next to
\* one at exactly separation_radius, which does not.
C11_Witness ==
    /\ Returned("test_separation_force")
    /\ Len(Qualifying) = 1
    /\ \E i \in 1 .. Len(args.neighbors) :
           distance_to(FromPosition(args.drone.position),
                       FromPosition(args.neighbors[i].position))
             = args.params.separation_radius
    /\ res = AwayFrom(Qualifying[1])
    /\ res # zero

\* ---- apply_boundary_forces, with a velocity ----
InitContainment ==
    /\ op = "apply_boundary_forces"
    /\ args \in [position : Vectors, velocity : {Vec(0, 0, -3), Vec(50, 0, 1)},
                 world_bounds : WorldBounds, boundary_margin : Margins]
    /\ res = zero
    /\ pc = "call"
    /\ NoTick

SpecContainment == InitContainment /\ [][CallBoundary]_vars

\* 0.1 times the depth of p past lower (pushing positive), else past upper
\* (pushing negative), else nothing
Restoring(p, lower, upper) ==
    IF flt(p, lower) THEN fmul(fsub(lower, p), Lit01)
    ELSE IF fgt(p, upper) THEN fneg(fmul(fsub(p, upper), Lit01))
    ELSE Zero

\* the sign of the force: toward the inside of the face that acts
Inward(p, f, lower, upper) ==
    /\ flt(p, lower) => fgt(f, Zero)
    /\ (~flt(p, lower) /\ fgt(p, upper)) => flt(f, Zero)

\* C12: each component is decided by its own axis: on x and y 0.1 times the
\* depth past -bound/2 + margin (positive) or else past bound/2 - margin
\* (negative); on z 0.2*(margin - z) when z < margin, whatever z_bound is,
\* or else -0.1*(z - (z_bound - margin)) when z > z_bound - margin; at most
\* one face per axis acts; the result is not clamped and does not depend on
\* the velocity.
C12_PerAxis ==
    Returned("apply_boundary_forces") =>
        /\ res.x = Restoring(args.position.x,
                       LowerThreshold(args.world_bounds[1]),
                       UpperThreshold(args.world_bounds[1]))
        /\ res.y = Restoring(args.position.y,
                       LowerThreshold(args.world_bounds[2]),
                       UpperThreshold(args.world_bounds[2]))
        /\ flt(args.position.z, args.boundary_margin) =>
               res.z = fmul(fsub(args.boundary_margin, args.position.z), Lit02)
        /\ (~flt(args.position.z, args.boundary_margin)
            /\ fgt(args.position.z, Ceiling)) =>
               res.z = fneg(fmul(fsub(args.position.z, Ceiling), Lit01))
        /\ (~flt(args.position.z, args.boundary_margin)
            /\ ~fgt(args.position.z, Ceiling)) => res.z = Zero
        /\ Inward(args.position.x, res.x, LowerThreshold(args.world_bounds[1]),
                  UpperThreshold(args.world_bounds[1]))
        /\ Inward(args.position.y, res.y, LowerThreshold(args.world_bounds[2]),
                  UpperThreshold(args.world_bounds[2]))
        /\ Inward(args.position.z, res.z, args.boundary_margin, Ceiling)
        /\ res = apply_boundary_forces(args.position, zero, args.world_bounds,
                                       args.boundary_margin)

\* C12 witness: a moving agent below the floor margin and above the ceiling
\* threshold at once, pushed up by the floor alone, outside the x band on
\* the positive side and inside the y bounds.
C12_Witness ==
    /\ Returned("apply_boundary_forces")
    /\ args.velocity # zero
    /\ flt(args.position.z, args.boundary_margin)
    /\ fgt(args.position.z, Ceiling)
    /\ res.z = fmul(fsub(args.boundary_margin, args.position.z), Lit02)
    /\ fgt(res.z, Zero)
    /\ fgt(args.position.x, UpperThreshold(args.world_bounds[1]))
    /\ flt(res.x, Zero)
    /\ res.y = Zero

\* ---- calculate_boids_forces with separation_radius > neighbor_radius ----
\* <<neighbor_radius, separation_radius, max_force>>
WideSeparation == {<<1, 3, 1>>, <<2, 3, 1>>, <<2, 3, MaxForce>>, <<2, 50, 1>>}

WideParams ==
    { [DefaultParams EXCEPT
          !.neighbor_radius = F(r[1]), !.separation_radius = F(r[2]),
          !.max_force = F(r[3]), !.separation_weight = F(w[1]),
          !.alignment_weight = F(w[2]), !.cohesion_weight = F(w[3])] :
      r \in WideSeparation, w \in {<<2, 1, 1>>, <<1, 0, 0>>} }

InitWide ==
    /\ op = "calculate_boids_forces"
    /\ args \in [drone : Drones, neighbors : CandidateLists,
                 params : WideParams]
    /\ res = zero
    /\ pc = "call"
    /\ NoTick

SpecWide == InitWide /\ [][CallBoids]_vars

\* candidate c is farther than neighbor_radius from the agent of the call
Far(c) ==
    fgt(distance_to(FromPosition(args.drone.position),
                    FromPosition(c.position)),
        args.params.neighbor_radius)

\* candidate c is farther than neighbor_radius, yet within separation_radius
FarButClose(c) ==
    /\ Far(c)
    /\ flt(distance_to(FromPosition(args.drone.position),
                       FromPosition(c.position)),
           args.params.separation_radius)

\* list with c inserted before index i
Inserted(list, i, c) ==
    [k \in 1 .. (Len(list) + 1) |->
        IF k < i THEN list[k] ELSE IF k = i THEN c ELSE list[k - 1]]

\* C13: removing from the candidate list a candidate farther than
\* neighbor_radius, or adding one anywhere in the list, leaves the force
\* of calculate_boids_forces unchanged, also when the candidate is closer
\* than separation_radius.
C13_FarCandidates ==
    Returned("calculate_boids_forces") =>
        /\ \A i \in 1 .. Len(args.neighbors) :
               Far(args.neighbors[i]) =>
                   res = calculate_boids_forces(args.drone,
                             Others(args.neighbors, i), args.params)
        /\ \A c \in Candidates, i \in 1 .. (Len(args.neighbors) + 1) :
               Far(c) =>
                   res = calculate_boids_forces(args.drone,
                             Inserted(args.neighbors, i, c), args.params)

\* C13 witness: a candidate farther than neighbor_radius but closer than
\* separation_radius, next to a neighbor in range that gives a force.
C13_Witness ==
    /\ Returned("calculate_boids_forces")
    /\ Len(args.neighbors) = 2
    /\ FarButClose(args.neighbors[1])
    /\ ~Far(args.neighbors[2])
    /\ fgt(args.params.separation_weight, Zero)
    /\ res # zero
    /\ res # ForceOn(args, args.neighbors)

====
